---- MODULE Spec2Model ----
(***************************************************************************)
(* A model of generate_audio.py: the oscillators, the ADSR envelope, the   *)
(* note-placement loops of the recipes, peak normalisation, the 16-bit     *)
(* conversion of save_wav and the module-level generation sequence.        *)
(*                                                                         *)
(* Python floats are IEEE-754 binary64.  Where the rounding of a float     *)
(* operation decides an index or a sample (time_pos * SAMPLE_RATE, the     *)
(* normalisation quotient, audio * 32767) the model computes the binary64  *)
(* result exactly: a double is a record [m, e], m its 53-bit significand   *)
(* as a sequence of bits, least significant first, and e the exponent of   *)
(* its lowest bit (the value is m * 2^e; m = <<>> is 0.0).                 *)
(***************************************************************************)
EXTENDS Integers, Sequences, FiniteSets, TLC

VARIABLES
    oscCall,    \* the oscillator call made: [wave, freq, durH, rate]
    oscOut,     \* its outcome: a buffer of samples, or the error raised
    envCall,    \* the apply_envelope call made: [audio, attack, decay, sustain, release]
    envOut,     \* its outcome: the enveloped buffer, or the error raised
    normRecipe, \* the recipe whose buffer reaches normalisation
    normPc,     \* "mixed" -> "normalized" -> "saved"
    normIn,     \* the buffer before the normalisation line
    normOut,    \* the buffer after it
    wavOut,     \* the int16 samples save_wav hands to wavfile.write
    mixLoop,    \* the placement loop running: "melody", "bass", "powerup", "gameover"
    mixCut,     \* tenths of a second by which the recipe's duration is shortened
    mixI,       \* index of the next note of the loop (0-based)
    mixTime,    \* time_pos, a double
    mixAudio,   \* the output buffer, as the segments written into it
    mixLog,     \* per note handled: its start, nominal end and what was written
    mixStatus,  \* "running", "done" or "error"
    runPc,      \* position in the module-level statement sequence
    runDir,     \* whether audio_dir exists
    runFiles,   \* the state of each asset file
    runWrites,  \* the files wavfile.write completed, in order
    runTries,   \* how often save_wav was entered per asset
    runOut      \* what was printed

vars == <<oscCall, oscOut, envCall, envOut,
          normRecipe, normPc, normIn, normOut, wavOut,
          mixLoop, mixCut, mixI, mixTime, mixAudio, mixLog, mixStatus,
          runPc, runDir, runFiles, runWrites, runTries, runOut>>

oscVars == <<oscCall, oscOut>>

envVars == <<envCall, envOut>>

normVars == <<normRecipe, normPc, normIn, normOut, wavOut>>

mixVars == <<mixLoop, mixCut, mixI, mixTime, mixAudio, mixLog, mixStatus>>

runVars == <<runPc, runDir, runFiles, runWrites, runTries, runOut>>

SAMPLE_RATE == 44100

(***************************************************************************)
(* Integer helpers.                                                        *)
(***************************************************************************)
Min(a, b) == IF a <= b THEN a ELSE b

Max(a, b) == IF a >= b THEN a ELSE b

Abs(x) == IF x < 0 THEN -x ELSE x


(***************************************************************************)
(* Binary64 arithmetic.  Naturals are bit sequences, least significant     *)
(* bit first, without high zero bits; they are added, multiplied and       *)
(* divided limb by limb so that no intermediate value leaves 32 bits.      *)
(***************************************************************************)
MantBits == 53

LimbBits == 14

GuardBits == 70

RECURSIVE BitsOf(_)
BitsOf(n) == IF n = 0 THEN <<>> ELSE <<n % 2>> \o BitsOf(n \div 2)

RECURSIVE NatOf(_)
NatOf(b) == IF b = <<>> THEN 0 ELSE b[1] + 2 * NatOf(Tail(b))

LimbBase == 2 ^ LimbBits

LimbToBits(n) == [i \in 1..LimbBits |-> (n \div (2 ^ (i - 1))) % 2]

Limb(b, j) ==
    NatOf(SubSeq(b, LimbBits * j + 1, Min(LimbBits * (j + 1), Len(b))))

NLimbs(b) == (Len(b) + LimbBits - 1) \div LimbBits

RECURSIVE Trim(_)
Trim(b) ==
    IF b = <<>> \/ b[Len(b)] = 1 THEN b
    ELSE IF Len(b) >= LimbBits /\ Limb(b, NLimbs(b) - 1) = 0
                               /\ Len(b) % LimbBits = 0
         THEN Trim(SubSeq(b, 1, Len(b) - LimbBits))
         ELSE Trim(SubSeq(b, 1, Len(b) - 1))

Zeros(n) == [i \in 1..n |-> 0]

Shl(b, n) == IF b = <<>> THEN <<>> ELSE Zeros(n) \o b

RECURSIVE AddC(_, _, _, _, _)
AddC(a, b, c, j, n) ==
    IF j = n
    THEN BitsOf(c)
    ELSE LET s == Limb(a, j) + Limb(b, j) + c
         IN  LimbToBits(s % LimbBase) \o AddC(a, b, s \div LimbBase, j + 1, n)

BAdd(a, b) == Trim(AddC(a, b, 0, 0, Max(NLimbs(a), NLimbs(b))))

RECURSIVE MulSmallC(_, _, _, _)
MulSmallC(a, k, c, j) ==
    IF j = NLimbs(a)
    THEN BitsOf(c)
    ELSE LET v == Limb(a, j) * k + c
         IN  LimbToBits(v % LimbBase) \o MulSmallC(a, k, v \div LimbBase, j + 1)

MulSmall(a, k) == Trim(MulSmallC(a, k, 0, 0))

RECURSIVE BMul(_, _)
BMul(a, b) ==
    IF b = <<>> \/ a = <<>>
    THEN <<>>
    ELSE BAdd(MulSmall(a, Limb(b, 0)),
              Shl(BMul(a, SubSeq(b, LimbBits + 1, Len(b))), LimbBits))

RECURSIVE DivC(_, _, _, _)
DivC(b, k, j, r) ==
    IF j < 0
    THEN <<>>
    ELSE LET v == r * LimbBase + Limb(b, j)
         IN  DivC(b, k, j - 1, v % k) \o LimbToBits(v \div k)

RECURSIVE DivRem(_, _, _, _)
DivRem(b, k, j, r) ==
    IF j < 0 THEN r ELSE DivRem(b, k, j - 1, (r * LimbBase + Limb(b, j)) % k)

DivSmall(b, k) == Trim(DivC(b, k, NLimbs(b) - 1, 0))

FZero == [m |-> <<>>, e |-> 0]

Round53(bits, e, sticky) ==
    LET n == Len(bits)
        d == n - MantBits
    IN  IF n = 0 THEN FZero
        ELSE IF d <= 0 THEN [m |-> Zeros(-d) \o bits, e |-> e + d]
        ELSE LET kept == SubSeq(bits, d + 1, n)
                 st   == sticky \/ \E i \in 1..(d - 1) : bits[i] = 1
                 up   == bits[d] = 1 /\ (st \/ kept[1] = 1)
                 k2   == IF up THEN BAdd(kept, <<1>>) ELSE kept
             IN  IF Len(k2) > MantBits
                 THEN [m |-> Tail(k2), e |-> e + d + 1]
                 ELSE [m |-> k2, e |-> e + d]

FromInt(k) == Round53(BitsOf(k), 0, FALSE)

FAdd(x, y) ==
    IF x.m = <<>> THEN y
    ELSE IF y.m = <<>> THEN x
    ELSE LET e == Min(x.e, y.e)
         IN  Round53(BAdd(Shl(x.m, x.e - e), Shl(y.m, y.e - e)), e, FALSE)

FMul(x, y) == Round53(BMul(x.m, y.m), x.e + y.e, FALSE)

FDivInt(x, k) ==
    LET b == Shl(x.m, GuardBits)
    IN  Round53(DivSmall(b, k), x.e - GuardBits, DivRem(b, k, NLimbs(b) - 1, 0) # 0)

FTrunc(x) ==
    IF x.m = <<>> THEN 0
    ELSE IF x.e >= 0 THEN NatOf(Shl(x.m, x.e))
    ELSE IF -x.e >= MantBits THEN 0
    ELSE NatOf(SubSeq(x.m, 1 - x.e, MantBits))

(***************************************************************************)
(* Exact rationals <<n, d>>, d > 0, in lowest terms.                       *)
(***************************************************************************)
RECURSIVE GCD(_, _)
GCD(a, b) == IF b = 0 THEN a ELSE GCD(b, a % b)

Rat(n, d) ==
    LET g == GCD(Abs(n), Abs(d))
        s == IF d < 0 THEN -1 ELSE 1
    IN  <<(s * n) \div g, (s * d) \div g>>

RatMul(p, q) == Rat(p[1] * q[1], p[2] * q[2])

RatAdd(p, q) == Rat(p[1] * q[2] + q[1] * p[2], p[2] * q[2])

RatSub(p, q) == Rat(p[1] * q[2] - q[1] * p[2], p[2] * q[2])

RatFloor(p) == p[1] \div p[2]

\* Python's int() of the quotient a / b (b > 0): truncation toward zero.
IntTrunc(a, b) == IF a >= 0 THEN a \div b ELSE -((-a) \div b)

(***************************************************************************)
(* Oscillators.  freq is in Hz, the duration is durH / 2 seconds (a        *)
(* dyadic value, so sample_rate * duration is exact in binary64) and rate  *)
(* is the sample_rate argument.  A sine sample is kept as the term         *)
(* sin(2 pi arg), a square sample as sign(sin(2 pi arg)); a sawtooth       *)
(* sample is the rational it evaluates to.                                 *)
(***************************************************************************)
MaxFreq == 2

MaxDurH == 3

MaxRate == 2

NoOscCall == [wave |-> "none", freq |-> 0, durH |-> 0, rate |-> 0]

NoOscOut == [status |-> "none", samples |-> <<>>]

\* np.linspace(0, duration, int(sample_rate * duration), False)
linspace_open(durH, num) ==
    IF num < 0
    THEN [status |-> "ValueError", t |-> <<>>]
    ELSE [status |-> "ok", t |-> [i \in 1..num |-> Rat((i - 1) * durH, 2 * num)]]

SineSample(turns) == [fn |-> "sin", arg |-> turns]

SquareSample(turns) == [fn |-> "sign_sin", arg |-> turns]

SawSample(turns) ==
    [fn |-> "value",
     arg |-> RatMul(<<2, 1>>,
                    RatSub(turns, <<RatFloor(RatAdd(<<1, 2>>, turns)), 1>>))]

WaveSample(wave, turns) ==
    CASE wave = "sine"     -> SineSample(turns)
      [] wave = "square"   -> SquareSample(turns)
      [] wave = "sawtooth" -> SawSample(turns)

OscBuffer(wave, freq, durH, rate) ==
    LET axis == linspace_open(durH, IntTrunc(rate * durH, 2))
    IN  IF axis.status = "ok"
        THEN [status |-> "buffer",
              samples |-> [i \in 1..Len(axis.t) |->
                              WaveSample(wave, RatMul(Rat(freq, 1), axis.t[i]))]]
        ELSE [status |-> axis.status, samples |-> <<>>]

generate_sine_wave(freq, durH, rate) == OscBuffer("sine", freq, durH, rate)

generate_square_wave(freq, durH, rate) == OscBuffer("square", freq, durH, rate)

generate_sawtooth_wave(freq, durH, rate) == OscBuffer("sawtooth", freq, durH, rate)

OscArgs == [freq : -1..MaxFreq, durH : -MaxDurH..MaxDurH, rate : 1..MaxRate]

CallSine ==
    /\ oscCall = NoOscCall
    /\ \E a \in OscArgs :
           /\ oscCall' = [wave |-> "sine", freq |-> a.freq, durH |-> a.durH, rate |-> a.rate]
           /\ oscOut' = generate_sine_wave(a.freq, a.durH, a.rate)
    /\ UNCHANGED <<envVars, normVars, mixVars, runVars>>

CallSquare ==
    /\ oscCall = NoOscCall
    /\ \E a \in OscArgs :
           /\ oscCall' = [wave |-> "square", freq |-> a.freq, durH |-> a.durH, rate |-> a.rate]
           /\ oscOut' = generate_square_wave(a.freq, a.durH, a.rate)
    /\ UNCHANGED <<envVars, normVars, mixVars, runVars>>

CallSawtooth ==
    /\ oscCall = NoOscCall
    /\ \E a \in OscArgs :
           /\ oscCall' = [wave |-> "sawtooth", freq |-> a.freq, durH |-> a.durH, rate |-> a.rate]
           /\ oscOut' = generate_sawtooth_wave(a.freq, a.durH, a.rate)
    /\ UNCHANGED <<envVars, normVars, mixVars, runVars>>

OscIdle == oscCall = NoOscCall /\ oscOut = NoOscOut

(***************************************************************************)
(* apply_envelope.  A stage time is the double nearest to k half-samples   *)
(* (k / (2 * SAMPLE_RATE) seconds); the sustain level and the envelope     *)
(* curve are exact rationals.  np.linspace and numpy's slice assignment    *)
(* are modelled with their length rules: a slice is clipped to the array,  *)
(* and a value array is stored only if its length equals the slice's or    *)
(* is 1 (broadcast); any other length raises ValueError.                   *)
(***************************************************************************)
MaxEnvLen == 3

MaxStageH == 4

EnvSamples == {-1, 2}

SustainLevels == {<<0, 1>>, <<1, 2>>, <<1, 1>>}

StageTime(k) == FDivInt(FromInt(k), 2 * SAMPLE_RATE)

\* int(stage * SAMPLE_RATE)
StageSamples(k) == FTrunc(FMul(StageTime(k), FromInt(SAMPLE_RATE)))

StageTable == [k \in 0..MaxStageH |-> StageSamples(k)]

\* np.linspace(a, b, num), endpoint included
linspace(a, b, num) ==
    [i \in 1..num |->
        IF num = 1 THEN a
        ELSE RatAdd(a, RatMul(RatSub(b, a), Rat(i - 1, num - 1)))]

\* envelope[lo:hi] = vals, for 0 <= lo <= hi
AssignSlice(env, lo, hi, vals) ==
    LET L     == Len(env.v)
        start == Min(lo, L)
        m     == Min(hi, L) - start
    IN  IF ~env.ok THEN env
        ELSE IF Len(vals) = m
        THEN [ok |-> TRUE,
              v  |-> [i \in 1..L |-> IF i > start /\ i <= start + m
                                     THEN vals[i - start] ELSE env.v[i]]]
        ELSE IF Len(vals) = 1
        THEN [ok |-> TRUE,
              v  |-> [i \in 1..L |-> IF i > start /\ i <= start + m
                                     THEN vals[1] ELSE env.v[i]]]
        ELSE [ok |-> FALSE, v |-> env.v]

apply_envelope(audio, attack, decay, sustain, release) ==
    LET length          == Len(audio)
        attack_samples  == StageTable[attack]
        decay_samples   == StageTable[decay]
        release_samples == StageTable[release]
        sustain_samples == Max(0, length - attack_samples - decay_samples
                                         - release_samples)
        ones == [ok |-> TRUE, v |-> [i \in 1..length |-> <<1, 1>>]]
        e1 == AssignSlice(ones, 0, attack_samples,
                          linspace(<<0, 1>>, <<1, 1>>, attack_samples))
        e2 == AssignSlice(e1, attack_samples, attack_samples + decay_samples,
                          linspace(<<1, 1>>, sustain, decay_samples))
        e3 == AssignSlice(e2, attack_samples + decay_samples,
                          attack_samples + decay_samples + sustain_samples,
                          <<sustain>>)
        e4 == IF release_samples > 0
              THEN AssignSlice(e3, Max(0, length - release_samples), length,
                               linspace(sustain, <<0, 1>>, release_samples))
              ELSE e3
    IN  IF e4.ok
        THEN [status |-> "ok",
              samples |-> [i \in 1..length |-> RatMul(<<audio[i], 1>>, e4.v[i])]]
        ELSE [status |-> "ValueError", samples |-> <<>>]

NoEnvCall == [audio |-> <<>>, attack |-> 0, decay |-> 0, sustain |-> <<0, 1>>,
              release |-> 0, made |-> FALSE]

NoEnvOut == [status |-> "none", samples |-> <<>>]

EnvBuffers == UNION {[1..n -> EnvSamples] : n \in 0..MaxEnvLen}

CallEnvelope ==
    /\ ~envCall.made
    /\ \E audio \in EnvBuffers, a \in 0..MaxStageH, d \in 0..MaxStageH,
          r \in 0..MaxStageH, s \in SustainLevels :
           /\ envCall' = [audio |-> audio, attack |-> a, decay |-> d, sustain |-> s,
                          release |-> r, made |-> TRUE]
           /\ envOut' = apply_envelope(audio, a, d, s, r)
    /\ UNCHANGED <<oscVars, normVars, mixVars, runVars>>

EnvIdle == envCall = NoEnvCall /\ envOut = NoEnvOut

(***************************************************************************)
(* Normalisation and save_wav.  The buffer reaching the normalisation      *)
(* line holds small integers (each exactly a double).  A float sample is   *)
(* [kind, neg, mag]: kind "num" with sign neg and magnitude mag (a         *)
(* double), or "nan" / "inf" as numpy's division produces them.            *)
(***************************************************************************)
MaxNormLen == 2

NormSamples == {-3, -1, 0, 2, 3}

Recipes == {"bgm", "shoot", "explosion", "damage", "powerup", "gameover"}

Decimal(n, d) == FDivInt(FromInt(n), d)

BgmCeiling == Decimal(7, 10)

ShootCeiling == Decimal(6, 10)

ExplosionCeiling == Decimal(7, 10)

DamageCeiling == Decimal(6, 10)

PowerupCeiling == Decimal(6, 10)

GameoverCeiling == Decimal(6, 10)

Ceiling(recipe) ==
    CASE recipe = "bgm"       -> BgmCeiling
      [] recipe = "shoot"     -> ShootCeiling
      [] recipe = "explosion" -> ExplosionCeiling
      [] recipe = "damage"    -> DamageCeiling
      [] recipe = "powerup"   -> PowerupCeiling
      [] recipe = "gameover"  -> GameoverCeiling

Num(neg, mag) == [kind |-> "num", neg |-> neg /\ mag.m # <<>>, mag |-> mag]

NaN == [kind |-> "nan", neg |-> FALSE, mag |-> FZero]

Inf(neg) == [kind |-> "inf", neg |-> neg, mag |-> FZero]

\* np.max(audio): the peak taken without np.abs
PeakSigned(audio) ==
    CHOOSE p \in {audio[i] : i \in 1..Len(audio)} :
        \A i \in 1..Len(audio) : audio[i] <= p

\* np.max(np.abs(audio))
PeakAbs(audio) ==
    CHOOSE p \in {Abs(audio[i]) : i \in 1..Len(audio)} :
        \A i \in 1..Len(audio) : Abs(audio[i]) <= p

\* x / peak, elementwise, as numpy divides doubles
Divide(x, peak) ==
    IF peak = 0
    THEN IF x = 0 THEN NaN ELSE Inf(x < 0)
    ELSE Num((x < 0) # (peak < 0), FDivInt(FromInt(Abs(x)), Abs(peak)))

\* s * c for a double c > 0
Scale(s, c) == IF s.kind = "num" THEN Num(s.neg, FMul(s.mag, c)) ELSE s

\* audio = audio / np.max(np.abs(audio)) * ceiling
Normalize(audio, ceiling) ==
    [i \in 1..Len(audio) |-> Scale(Divide(audio[i], PeakAbs(audio)), ceiling)]

Int16Wrap(v) == ((v + 32768) % 65536) - 32768

\* the conversion rounding toward minus infinity (np.floor before the cast)
astype_int16_floor(s) ==
    Int16Wrap(IF s.neg
              THEN IF FromInt(FTrunc(s.mag)) = s.mag
                   THEN -FTrunc(s.mag) ELSE -FTrunc(s.mag) - 1
              ELSE FTrunc(s.mag))

\* .astype(np.int16) of a finite double: the C conversion drops the fraction
astype_int16(s) ==
    Int16Wrap(IF s.neg THEN -FTrunc(s.mag) ELSE FTrunc(s.mag))

\* what .astype(np.int16) may leave for a NaN or an infinity (undefined in C)
Int16OfNonFinite == {-32768, 0}

WavSample(s) ==
    IF s.kind = "num"
    THEN {astype_int16(Scale(s, FromInt(32767)))}
    ELSE Int16OfNonFinite

\* (audio * 32767).astype(np.int16): the sequences the conversion can produce
save_wav(audio) ==
    {w \in [1..Len(audio) -> UNION {WavSample(audio[i]) : i \in 1..Len(audio)}] :
        \A i \in 1..Len(audio) : w[i] \in WavSample(audio[i])}

NormBuffers == UNION {[1..n -> NormSamples] : n \in 1..MaxNormLen}

NormalizeStep ==
    /\ normPc = "mixed"
    /\ normOut' = Normalize(normIn, Ceiling(normRecipe))
    /\ normPc' = "normalized"
    /\ UNCHANGED <<normRecipe, normIn, wavOut>>
    /\ UNCHANGED <<oscVars, envVars, mixVars, runVars>>

SaveWavStep ==
    /\ normPc = "normalized"
    /\ wavOut' \in save_wav(normOut)
    /\ normPc' = "saved"
    /\ UNCHANGED <<normRecipe, normIn, normOut>>
    /\ UNCHANGED <<oscVars, envVars, mixVars, runVars>>

NormIdle ==
    /\ normRecipe = "none" /\ normPc = "idle"
    /\ normIn = <<>> /\ normOut = <<>> /\ wavOut = <<>>

(***************************************************************************)
(* The note-placement loops.  Durations are written in tenths of a second  *)
(* and converted as Python converts the decimal literal.  The recipe's     *)
(* total duration is its literal shortened by mixCut tenths (mixCut = 0 is *)
(* the recipe as written), so that notes reaching past the end of the      *)
(* buffer occur in every loop.  The output buffer is kept as the sequence  *)
(* of segments stored into it: [loop, note, lo, hi, op], the samples       *)
(* lo..hi-1, added ("add") or assigned ("set").                            *)
(***************************************************************************)
MaxCut == 3

melody_notes ==
    << <<220, 5>>, <<196, 5>>, <<175, 5>>, <<165, 5>>,
       <<220, 5>>, <<262, 5>>, <<247, 5>>, <<220, 5>>,
       <<175, 5>>, <<165, 5>>, <<147, 5>>, <<165, 5>>,
       <<175, 5>>, <<196, 5>>, <<220, 5>>, <<196, 5>> >>

bass_notes ==
    << <<55, 20>>, <<44, 20>>, <<49, 20>>, <<55, 20>>,
       <<55, 20>>, <<44, 20>>, <<49, 20>>, <<55, 20>> >>

powerup_notes == <<523, 659, 784, 1047>>

gameover_notes == << <<392, 3>>, <<349, 3>>, <<330, 3>>, <<294, 6>> >>

BgmTenths == 160

PowerupTenths == 4

GameoverTenths == 15

RecipeTenths(loop) ==
    CASE loop \in {"melody", "bass"} -> BgmTenths
      [] loop = "powerup"            -> PowerupTenths
      [] loop = "gameover"           -> GameoverTenths

\* the recipe's duration, a double
Duration(loop, cut) == Decimal(RecipeTenths(loop) - cut, 10)

\* int(x * SAMPLE_RATE)
ToSample(x) == FTrunc(FMul(x, FromInt(SAMPLE_RATE)))

\* len(audio): np.zeros(int(SAMPLE_RATE * duration)), np.zeros(len(t))
AudioLen(loop, cut) == ToSample(Duration(loop, cut))

Seg(loop, note, lo, hi, op) ==
    [loop |-> loop, note |-> note, lo |-> lo, hi |-> hi, op |-> op]

Entry(loop, note, start, end) ==
    [loop |-> loop, note |-> note, start |-> start, end |-> end]

\* the end-of-buffer test written with < instead of <=
PlaceWholeStrict(audio, seg, length) ==
    IF seg.hi < length THEN Append(audio, seg) ELSE audio

\* if end <= len(audio): audio[start:end] += note
PlaceWhole(audio, seg, length) ==
    IF seg.hi <= length THEN Append(audio, seg) ELSE audio

\* if end > len(audio): end = len(audio)
ClampEnd(end, length) == IF end > length THEN length ELSE end

\* the end taken as start + int(dur * SAMPLE_RATE), as the background loop does
NoteEndFromStart(time, dur) == ToSample(time) + ToSample(dur)

\* end = int((time_pos + dur) * SAMPLE_RATE)
NoteEnd(time, dur) == ToSample(FAdd(time, dur))

\* length of the array a * b under numpy's broadcasting (-1: ValueError)
BroadcastLen(m, k) ==
    IF m = k THEN m ELSE IF m = 1 THEN k ELSE IF k = 1 THEN m ELSE -1

\* length of x[lo:hi] for an array of the given length, 0 <= lo
SliceLen(length, lo, hi) == Max(0, Min(hi, length) - Min(lo, length))

MelodyNote ==
    /\ mixLoop = "melody" /\ mixStatus = "running"
    /\ mixI < 2 * Len(melody_notes)
    /\ LET dur   == Decimal(melody_notes[(mixI % Len(melody_notes)) + 1][2], 10)
           start == ToSample(mixTime)
           end   == start + ToSample(dur)
       IN  /\ mixAudio' = PlaceWhole(mixAudio, Seg("melody", mixI, start, end, "add"),
                                     AudioLen("melody", mixCut))
           /\ mixLog' = Append(mixLog, Entry("melody", mixI, start, end))
           /\ mixTime' = FAdd(mixTime, dur)
    /\ mixI' = mixI + 1
    /\ UNCHANGED <<mixLoop, mixCut, mixStatus>>
    /\ UNCHANGED <<oscVars, envVars, normVars, runVars>>

StartBass ==
    /\ mixLoop = "melody" /\ mixStatus = "running"
    /\ mixI = 2 * Len(melody_notes)
    /\ mixLoop' = "bass"
    /\ mixI' = 0
    /\ mixTime' = FZero
    /\ UNCHANGED <<mixCut, mixAudio, mixLog, mixStatus>>
    /\ UNCHANGED <<oscVars, envVars, normVars, runVars>>

BassNote ==
    /\ mixLoop = "bass" /\ mixStatus = "running"
    /\ mixI < 2 * Len(bass_notes)
    /\ LET dur   == Decimal(bass_notes[(mixI % Len(bass_notes)) + 1][2], 10)
           start == ToSample(mixTime)
           end   == start + ToSample(dur)
       IN  /\ mixAudio' = PlaceWhole(mixAudio, Seg("bass", mixI, start, end, "add"),
                                     AudioLen("bass", mixCut))
           /\ mixLog' = Append(mixLog, Entry("bass", mixI, start, end))
           /\ mixTime' = FAdd(mixTime, dur)
    /\ mixI' = mixI + 1
    /\ UNCHANGED <<mixLoop, mixCut, mixStatus>>
    /\ UNCHANGED <<oscVars, envVars, normVars, runVars>>

PowerupNote ==
    /\ mixLoop = "powerup" /\ mixStatus = "running"
    /\ mixI < Len(powerup_notes)
    /\ LET length        == AudioLen("powerup", mixCut)
           note_duration == FDivInt(Duration("powerup", mixCut), Len(powerup_notes))
           start  == ToSample(FMul(FromInt(mixI), note_duration))
           end    == ToSample(FMul(FromInt(mixI + 1), note_duration))
           slice  == SliceLen(length, start, end)
           seglen == IF end - start < 0 THEN -1 ELSE BroadcastLen(slice, end - start)
           ok     == seglen >= 0 /\ seglen \in {1, slice}
       IN  /\ mixLog' = Append(mixLog, Entry("powerup", mixI, start, end))
           /\ IF ok
              THEN /\ mixAudio' = Append(mixAudio,
                                         Seg("powerup", mixI, Min(start, length),
                                             Min(end, length), "set"))
                   /\ mixI' = mixI + 1
                   /\ UNCHANGED mixStatus
              ELSE /\ mixStatus' = "error"
                   /\ UNCHANGED <<mixAudio, mixI>>
    /\ UNCHANGED <<mixLoop, mixCut, mixTime>>
    /\ UNCHANGED <<oscVars, envVars, normVars, runVars>>

GameoverNote ==
    /\ mixLoop = "gameover" /\ mixStatus = "running"
    /\ mixI < Len(gameover_notes)
    /\ LET length  == AudioLen("gameover", mixCut)
           dur     == Decimal(gameover_notes[mixI + 1][2], 10)
           start   == ToSample(mixTime)
           nominal == NoteEnd(mixTime, dur)
           end     == ClampEnd(nominal, length)
       IN  /\ mixLog' = Append(mixLog, Entry("gameover", mixI, start, nominal))
           /\ IF end - start >= 0
              THEN /\ mixAudio' = Append(mixAudio,
                                         Seg("gameover", mixI, start, end, "set"))
                   /\ mixTime' = FAdd(mixTime, dur)
                   /\ mixI' = mixI + 1
                   /\ UNCHANGED mixStatus
              ELSE /\ mixStatus' = "error"
                   /\ UNCHANGED <<mixAudio, mixTime, mixI>>
    /\ UNCHANGED <<mixLoop, mixCut>>
    /\ UNCHANGED <<oscVars, envVars, normVars, runVars>>

MixIdle ==
    /\ mixLoop = "none" /\ mixCut = 0 /\ mixI = 0 /\ mixTime = FZero
    /\ mixAudio = <<>> /\ mixLog = <<>> /\ mixStatus = "idle"

(***************************************************************************)
(* The module-level statements, in order: os.makedirs, then for each asset *)
(* the call generating its buffer and the save_wav call writing it, then   *)
(* the closing print.  Nothing catches an exception: a failing makedirs    *)
(* or wavfile.write ends the run.  runPc is [at, k]: the statement about   *)
(* to run and the asset (1..6) it is about.                                *)
(***************************************************************************)
Assets ==
    <<"bgm_halloween", "sfx_shoot", "sfx_explosion", "sfx_damage",
      "sfx_powerup", "sfx_gameover">>

AssetNames == {Assets[k] : k \in 1..Len(Assets)}

At(stmt, k) == [at |-> stmt, k |-> k]

SuccessMessage == "All audio files generated successfully!"

\* os.makedirs(audio_dir, exist_ok=True)
MakeDirs ==
    /\ runPc = At("makedirs", 0)
    /\ runDir' = TRUE
    /\ runPc' = At("print_bgm", 1)
    /\ UNCHANGED <<runFiles, runWrites, runTries, runOut>>
    /\ UNCHANGED <<oscVars, envVars, normVars, mixVars>>

\* os.makedirs raises OSError
MakeDirsFails ==
    /\ runPc = At("makedirs", 0)
    /\ ~runDir
    /\ runPc' = At("raised", 0)
    /\ UNCHANGED <<runDir, runFiles, runWrites, runTries, runOut>>
    /\ UNCHANGED <<oscVars, envVars, normVars, mixVars>>

\* print("Generating Halloween BGM...")
PrintBgm ==
    /\ runPc = At("print_bgm", 1)
    /\ runOut' = Append(runOut, "Generating Halloween BGM...")
    /\ runPc' = At("generate", 1)
    /\ UNCHANGED <<runDir, runFiles, runWrites, runTries>>
    /\ UNCHANGED <<oscVars, envVars, normVars, mixVars>>

\* print("Generating sound effects...")
PrintSfx ==
    /\ runPc = At("print_sfx", 2)
    /\ runOut' = Append(runOut, "Generating sound effects...")
    /\ runPc' = At("generate", 2)
    /\ UNCHANGED <<runDir, runFiles, runWrites, runTries>>
    /\ UNCHANGED <<oscVars, envVars, normVars, mixVars>>

\* generate_halloween_bgm(), generate_magic_shoot_sound(), ...
Generate ==
    /\ runPc.at = "generate"
    /\ runPc' = At("save", runPc.k)
    /\ UNCHANGED <<runDir, runFiles, runWrites, runTries, runOut>>
    /\ UNCHANGED <<oscVars, envVars, normVars, mixVars>>

\* the statement after the save_wav call for asset k
AfterSave(k) ==
    IF k = 1 THEN At("print_sfx", 2)
    ELSE IF k < Len(Assets) THEN At("generate", k + 1)
    ELSE At("print_success", 0)

\* save_wav: wavfile.write succeeds, then print(f"Saved: {filename}")
SaveWav ==
    /\ runPc.at = "save"
    /\ runTries' = [runTries EXCEPT ![Assets[runPc.k]] = @ + 1]
    /\ runFiles' = [runFiles EXCEPT ![Assets[runPc.k]] = "new"]
    /\ runWrites' = Append(runWrites, Assets[runPc.k])
    /\ runOut' = Append(runOut, "Saved: " \o Assets[runPc.k])
    /\ runPc' = AfterSave(runPc.k)
    /\ UNCHANGED runDir
    /\ UNCHANGED <<oscVars, envVars, normVars, mixVars>>

\* the exception of wavfile.write caught and the run carried on
SaveWavFailsSwallowed ==
    /\ runPc.at = "save"
    /\ runTries' = [runTries EXCEPT ![Assets[runPc.k]] = @ + 1]
    /\ \E left \in {runFiles[Assets[runPc.k]], "partial"} :
           runFiles' = [runFiles EXCEPT ![Assets[runPc.k]] = left]
    /\ runPc' = AfterSave(runPc.k)
    /\ UNCHANGED <<runDir, runWrites, runOut>>
    /\ UNCHANGED <<oscVars, envVars, normVars, mixVars>>

\* save_wav: wavfile.write raises; the file is untouched or left incomplete
SaveWavFails ==
    /\ runPc.at = "save"
    /\ runTries' = [runTries EXCEPT ![Assets[runPc.k]] = @ + 1]
    /\ \E left \in {runFiles[Assets[runPc.k]], "partial"} :
           runFiles' = [runFiles EXCEPT ![Assets[runPc.k]] = left]
    /\ runPc' = At("raised", runPc.k)
    /\ UNCHANGED <<runDir, runWrites, runOut>>
    /\ UNCHANGED <<oscVars, envVars, normVars, mixVars>>

\* print("All audio files generated successfully!")
PrintSuccess ==
    /\ runPc = At("print_success", 0)
    /\ runOut' = Append(runOut, SuccessMessage)
    /\ runPc' = At("end", 0)
    /\ UNCHANGED <<runDir, runFiles, runWrites, runTries>>
    /\ UNCHANGED <<oscVars, envVars, normVars, mixVars>>

RunIdle ==
    /\ runPc = At("idle", 0) /\ runDir = FALSE
    /\ runFiles = [a \in AssetNames |-> "absent"]
    /\ runWrites = <<>> /\ runOut = <<>>
    /\ runTries = [a \in AssetNames |-> 0]

(***************************************************************************)
(* Specifications.  Each one starts the part of the program it is about    *)
(* and leaves the other parts idle.                                        *)
(***************************************************************************)
OscInit == OscIdle /\ EnvIdle /\ NormIdle /\ MixIdle /\ RunIdle

OscNext == CallSine \/ CallSquare \/ CallSawtooth

SpecOsc == OscInit /\ [][OscNext]_vars

EnvInit == OscIdle /\ EnvIdle /\ NormIdle /\ MixIdle /\ RunIdle

EnvNext == CallEnvelope

SpecEnv == EnvInit /\ [][EnvNext]_vars

NormInit ==
    /\ OscIdle /\ EnvIdle /\ MixIdle /\ RunIdle
    /\ normRecipe \in Recipes
    /\ normPc = "mixed"
    /\ normIn \in NormBuffers
    /\ normOut = <<>>
    /\ wavOut = <<>>

NormNext == NormalizeStep \/ SaveWavStep

SpecNorm == NormInit /\ [][NormNext]_vars

MixInit ==
    /\ OscIdle /\ EnvIdle /\ NormIdle /\ RunIdle
    /\ mixLoop \in {"melody", "powerup", "gameover"}
    /\ mixCut \in 0..MaxCut
    /\ mixI = 0
    /\ mixTime = FZero
    /\ mixAudio = <<>>
    /\ mixLog = <<>>
    /\ mixStatus = "running"

MixNext == MelodyNote \/ StartBass \/ BassNote \/ PowerupNote \/ GameoverNote

SpecMix == MixInit /\ [][MixNext]_vars

Init ==
    /\ OscIdle /\ EnvIdle /\ NormIdle /\ MixIdle
    /\ runPc = At("makedirs", 0)
    /\ runDir \in BOOLEAN
    /\ runFiles \in [AssetNames -> {"absent", "old"}]
    /\ runDir = FALSE => runFiles = [a \in AssetNames |-> "absent"]
    /\ runWrites = <<>>
    /\ runTries = [a \in AssetNames |-> 0]
    /\ runOut = <<>>

Next ==
    \/ MakeDirs \/ MakeDirsFails \/ PrintBgm \/ Generate \/ SaveWav
    \/ SaveWavFails \/ PrintSfx \/ PrintSuccess

Spec == Init /\ [][Next]_vars

(***************************************************************************)
(* Comparison of non-negative doubles, and the integer nearest to one.     *)
(***************************************************************************)
FLess(x, y) ==
    IF y.m = <<>> THEN FALSE
    ELSE IF x.m = <<>> THEN TRUE
    ELSE IF x.e # y.e THEN x.e < y.e
    ELSE \E i \in 1..MantBits :
            /\ x.m[i] < y.m[i]
            /\ \A j \in (i + 1)..MantBits : x.m[j] = y.m[j]

FLe(x, y) == x = y \/ FLess(x, y)

\* round(x) for a double x >= 0: the nearest integer, a tie going to the even one
NearestInt(x) ==
    LET f == -x.e
    IN  IF x.m = <<>> THEN 0
        ELSE IF f <= 0 THEN NatOf(Shl(x.m, -f))
        ELSE IF f > MantBits THEN 0
        ELSE LET ip   == IF f = MantBits THEN 0 ELSE NatOf(SubSeq(x.m, f + 1, MantBits))
                 half == x.m[f] = 1
                 rest == \E i \in 1..(f - 1) : x.m[i] = 1
             IN  ip + (IF half /\ (rest \/ ip % 2 = 1) THEN 1 ELSE 0)

NonSilent(audio) == \E i \in 1..Len(audio) : audio[i] # 0

Normalized == normPc \in {"normalized", "saved"}

(***************************************************************************)
(* C1.  For every recipe and every buffer with a non-zero sample, after    *)
(* the normalisation line every sample is finite and within the recipe's   *)
(* ceiling in absolute value (0.7 for the background loop and the          *)
(* explosion, 0.6 for the others), and some sample's absolute value is     *)
(* exactly the ceiling.                                                    *)
(***************************************************************************)
C1_PeakEqualsCeiling ==
    (Normalized /\ NonSilent(normIn)) =>
        LET c == IF normRecipe \in {"bgm", "explosion"}
                 THEN Decimal(7, 10) ELSE Decimal(6, 10)
        IN  /\ Len(normOut) = Len(normIn)
            /\ \A i \in 1..Len(normOut) :
                  normOut[i].kind = "num" /\ FLe(normOut[i].mag, c)
            /\ \E i \in 1..Len(normOut) : normOut[i].mag = c

\* a buffer whose peak is a negative sample and whose other quotient is inexact
C1_Witness ==
    /\ normPc = "normalized" /\ normRecipe = "bgm" /\ normIn = <<-3, 2>>
    /\ normOut[1] = Num(TRUE, Decimal(7, 10))
    /\ normOut[2].mag # FZero

(***************************************************************************)
(* C2.  An all-zero buffer reaching the normalisation line comes out as    *)
(* the all-zero buffer: every sample finite and zero.                      *)
(***************************************************************************)
C2_SilenceStaysSilence ==
    (Normalized /\ ~NonSilent(normIn)) =>
        /\ Len(normOut) = Len(normIn)
        /\ \A i \in 1..Len(normOut) :
              normOut[i].kind = "num" /\ normOut[i].mag = FZero

(***************************************************************************)
(* C3.  An oscillator call with frequency <= 0 or duration <= 0 ends in    *)
(* an error and never returns a sample buffer.                             *)
(***************************************************************************)
C3_InvalidCallRejected ==
    (oscCall.wave # "none" /\ (oscCall.freq <= 0 \/ oscCall.durH <= 0)) =>
        oscOut.status # "buffer"

(***************************************************************************)
(* C4.  Whenever apply_envelope returns for a non-empty buffer: with       *)
(* attack > 0 the first output sample is 0, and with release > 0 the last  *)
(* output sample is 0.                                                     *)
(***************************************************************************)
C4_EnvelopeEndsAtZero ==
    (envCall.made /\ Len(envCall.audio) > 0 /\ envOut.status = "ok") =>
        /\ envCall.attack > 0 => envOut.samples[1][1] = 0
        /\ envCall.release > 0 => envOut.samples[Len(envCall.audio)][1] = 0

(***************************************************************************)
(* C5 as stated.  In the melody, bass and game-over loops a note whose     *)
(* end index exceeds the buffer length is skipped whole (nothing of it is  *)
(* stored), and a note whose end is within the length, the length          *)
(* included, is stored in full over [start, end).                          *)
(***************************************************************************)
NoteSegs(e) ==
    {k \in 1..Len(mixAudio) : mixAudio[k].loop = e.loop /\ mixAudio[k].note = e.note}

StoredInFull(e) ==
    \E k \in NoteSegs(e) : mixAudio[k].lo = e.start /\ mixAudio[k].hi = e.end

C6_AllBassNotesPlaced ==
    (mixLoop = "bass" /\ mixCut = 0 /\ mixI = 2 * Len(bass_notes)) =>
        Cardinality({k \in 1..Len(mixAudio) : mixAudio[k].loop = "bass"})
            = 2 * Len(bass_notes)

(***************************************************************************)
(* C7 as stated.  save_wav maps every finite sample x of the normalised    *)
(* buffer to the integer nearest to x * 32767, within the int16 range.     *)
(***************************************************************************)
C7_SaveWavRounds ==
    normPc = "saved" =>
        \A i \in 1..Len(normOut) :
            normOut[i].kind = "num" =>
                LET r == NearestInt(FMul(normOut[i].mag, FromInt(32767)))
                IN  /\ wavOut[i] = (IF normOut[i].neg THEN -r ELSE r)
                    /\ wavOut[i] \in -32768..32767

(***************************************************************************)
(* C7 amended.  save_wav maps every finite sample x of the normalised      *)
(* buffer to the product x * 32767 with its fraction dropped (truncation   *)
(* toward zero, for positive and negative x alike): the result w has the   *)
(* sign of x unless it is 0, |w| <= |x * 32767| < |w| + 1, and w lies in   *)
(* the int16 range.                                                        *)
(***************************************************************************)
C7_SaveWavTruncates ==
    normPc = "saved" =>
        \A i \in 1..Len(normOut) :
            normOut[i].kind = "num" =>
                LET p == FMul(normOut[i].mag, FromInt(32767))
                    w == wavOut[i]
                IN  /\ w \in -32768..32767
                    /\ w # 0 => (w < 0) = normOut[i].neg
                    /\ FLe(FromInt(Abs(w)), p)
                    /\ FLess(p, FromInt(Abs(w) + 1))

\* a negative and a positive sample whose products have a fraction above 1/2
C7_Witness ==
    /\ normPc = "saved" /\ normRecipe = "bgm" /\ normIn = <<-3, 2>>
    /\ wavOut = <<-22936, 15291>>
    /\ NearestInt(FMul(normOut[1].mag, FromInt(32767))) = 22937

(***************************************************************************)
(* C8.  The six files are written in the fixed order, each at most once    *)
(* and save_wav is entered at most once per asset; a failing makedirs or   *)
(* write ends the run (no statement runs after it, so nothing is retried   *)
(* and no later asset is generated or written) and the success message is  *)
(* not printed; the success message is printed only after all six files    *)
(* have been written.                                                      *)
(***************************************************************************)
SuccessPrinted == \E n \in 1..Len(runOut) : runOut[n] = SuccessMessage

WriteFailed ==
    \E a \in AssetNames :
        runTries[a] > 0 /\ \A n \in 1..Len(runWrites) : runWrites[n] # a

C8_OrderedWritesFatalFailure ==
    /\ Len(runWrites) <= Len(Assets)
    /\ \A n \in 1..Len(runWrites) : runWrites[n] = Assets[n]
    /\ \A a \in AssetNames : runTries[a] <= 1
    /\ (WriteFailed \/ ~runDir) => ~SuccessPrinted
    /\ WriteFailed => runPc.at = "raised"
    /\ (~runDir /\ runPc.at # "makedirs") => runPc.at = "raised"
    /\ runPc.at = "raised" => ~ENABLED Next
    /\ SuccessPrinted =>
          /\ runWrites = Assets
          /\ \A a \in AssetNames : runFiles[a] = "new"

\* the third write fails after two files were written
C8_Witness ==
    /\ runPc = At("raised", 3)
    /\ runWrites = <<"bgm_halloween", "sfx_shoot">>
    /\ runTries["sfx_explosion"] = 1
    /\ runFiles["sfx_explosion"] = "partial"

(***************************************************************************)
(* C9.  When the attack, decay and release sample counts together exceed   *)
(* the buffer length, apply_envelope does not fail and returns a buffer    *)
(* of that length.                                                         *)
(***************************************************************************)
C9_OverlongStagesNeverFail ==
    (/\ envCall.made
     /\ StageTable[envCall.attack] + StageTable[envCall.decay]
            + StageTable[envCall.release] > Len(envCall.audio)) =>
        /\ envOut.status = "ok"
        /\ Len(envOut.samples) = Len(envCall.audio)

(***************************************************************************)
(* C10.  In the powerup and game-over recipes as written, when the loop    *)
(* has run its four notes, the slices stored are the notes' [start, end),  *)
(* consecutive from 0 to the buffer length (17640 and 66150 samples), and  *)
(* every sample index of the buffer lies in exactly one of them.           *)
(***************************************************************************)
C10_SlicesPartitionBuffer ==
    (/\ mixCut = 0 /\ mixStatus = "running"
     /\ \/ mixLoop = "powerup" /\ mixI = Len(powerup_notes)
        \/ mixLoop = "gameover" /\ mixI = Len(gameover_notes)) =>
        LET L == AudioLen(mixLoop, 0)
            N == Len(mixAudio)
        IN  /\ N = 4 /\ Len(mixLog) = 4
            /\ L = (IF mixLoop = "powerup" THEN 17640 ELSE 66150)
            /\ \A k \in 1..N :
                  /\ mixAudio[k].note = k - 1
                  /\ mixAudio[k].lo = mixLog[k].start
                  /\ mixAudio[k].hi = mixLog[k].end
            /\ mixAudio[1].lo = 0
            /\ \A k \in 1..(N - 1) : mixAudio[k].hi = mixAudio[k + 1].lo
            /\ mixAudio[N].hi = L
            /\ \A idx \in 0..(L - 1) :
                  Cardinality({k \in 1..N : mixAudio[k].lo <= idx
                                            /\ idx < mixAudio[k].hi}) = 1

\* game-over as written: 0.3 + 0.3 + 0.3 is 0.8999999999999999 in binary64,
\* so the third slice ends at sample 39689
C10_Witness ==
    /\ mixLoop = "gameover" /\ mixCut = 0 /\ mixI = Len(gameover_notes)
    /\ mixStatus = "running"
    /\ Len(mixAudio) = 4
    /\ mixAudio[3].hi = 39689
    /\ mixAudio[4].lo = 39689
    /\ mixAudio[4].hi = 66150
====
